---- MODULE Spec2Model ----
(***************************************************************************)
(* Burn-My-Windows: the TV effect (src/src/TVEffect.js) and the Doom       *)
(* effect (src/src/Doom.js).                                               *)
(*                                                                         *)
(*  - the TV effect's shader pool: freeShaders, getShader(), free(),       *)
(*    cleanUp(), and setUniforms() writing uColor;                         *)
(*  - the TV effect's fragment shader (the GLSL of vfunc_build_pipeline),  *)
(*    evaluated in exact rational arithmetic;                              *)
(*  - the Doom effect's begin-animation handler writing its uniforms.      *)
(*                                                                         *)
(* A number of the shader is a rational <<n, d>> with d > 0 in lowest      *)
(* terms, so that equal numbers are equal values.                          *)
(***************************************************************************)
EXTENDS Integers, Sequences, FiniteSets

VARIABLES
  \* ---- TVEffect.js, module state and the extension's running transitions
  freeShaders,      \* the module-level array of reusable shader instances
  nShaders,         \* number of `new ShaderClass()` so far; instances are 1..nShaders
  uColor,           \* per instance: the value of the uColor uniform ("unset" at _init)
  shaderOf,         \* per actor: the instance its running transition uses, 0 if none
  settingsOf,       \* per actor: the 'tv-effect-color' its transition was started with
  setCalls,         \* per actor: setUniforms() calls made for its running transition
  painted,          \* per actor: its running transition has painted a frame
  lastTake,         \* the getShader() after the last free(): "new" or "reused"; else "none"
  framesOK,         \* every frame so far sampled the uColor of its own transition
  calls,            \* the last two pool calls, oldest first: [op, shader]
  preDrain,         \* instances constructed before the last cleanUp()
  heldAtDrain,      \* instances that were in use when some cleanUp() ran
  drained,          \* cleanUp() has been called
  maxInUse,         \* largest number of instances in use at the same time
  \* ---- TVEffect.js, one fragment of one transition
  uForOpening,      \* standard uniform: window-open transition
  uProgress,        \* standard uniform: the transition's progress
  cogl_tex_coord_in,\* <<s, t>> of the fragment
  frag,             \* the locals of the last evaluation of the fragment code
  rendered,         \* 0: no frame yet, 1: one frame, 2: two or more
  prevMask,         \* `mask` of the frame before the last one
  \* ---- Doom.js
  doom,             \* the shader's uniforms and the inputs of the last begin-animation
  doomRun           \* the Doom shader of the factory and the transition that uses it

vars == <<freeShaders, nShaders, uColor, shaderOf, settingsOf, setCalls, painted,
          lastTake, framesOK, calls, preDrain, heldAtDrain, drained, maxInUse,
          uForOpening, uProgress, cogl_tex_coord_in, frag, rendered, prevMask,
          doom, doomRun>>

\* The call history kept for the claims about the pool.
historyVars == <<calls, preDrain, heldAtDrain, drained, maxInUse>>

poolVars == <<freeShaders, nShaders, uColor, shaderOf, settingsOf, setCalls, painted,
              lastTake, framesOK, calls, preDrain, heldAtDrain, drained, maxInUse>>

shaderVars == <<uForOpening, uProgress, cogl_tex_coord_in, frag, rendered, prevMask>>

----------------------------------------------------------------------------
(* Bounds of the model.                                                    *)

MaxActors == 2
MaxShaders == 3
MaxOver == 4
MaxHeight == 4

----------------------------------------------------------------------------
(* Rational arithmetic.                                                    *)

Abs(n) == IF n < 0 THEN -n ELSE n

RECURSIVE GCD(_, _)
GCD(a, b) == IF b = 0 THEN a ELSE GCD(b, a % b)

Rat(n, d) == LET g == GCD(Abs(n), d) IN <<n \div g, d \div g>>

ZERO == Rat(0, 1)
ONE == Rat(1, 1)
TWO == Rat(2, 1)
THREE == Rat(3, 1)

RAdd(a, b) == Rat(a[1] * b[2] + b[1] * a[2], a[2] * b[2])
RSub(a, b) == Rat(a[1] * b[2] - b[1] * a[2], a[2] * b[2])
RMul(a, b) == Rat(a[1] * b[1], a[2] * b[2])
\* Division by a positive number: every divisor of the code is one.
RDiv(a, b) == Rat(a[1] * b[2], a[2] * b[1])
RLeq(a, b) == a[1] * b[2] <= b[1] * a[2]
RLt(a, b) == a[1] * b[2] < b[1] * a[2]
RMax(a, b) == IF RLeq(a, b) THEN b ELSE a
InUnit(a) == RLeq(ZERO, a) /\ RLeq(a, ONE)

----------------------------------------------------------------------------
(* TVEffect.js: the fragment shader built by vfunc_build_pipeline.         *)

BLUR_WIDTH == Rat(1, 100)
TB_TIME == Rat(7, 10)
LR_TIME == Rat(4, 10)
LR_DELAY == Rat(6, 10)
FF_TIME == Rat(1, 10)

\* GLSL clamp(x, minVal, maxVal) = min(max(x, minVal), maxVal).
clamp(x, minVal, maxVal) ==
  IF RLt(x, minVal) THEN minVal ELSE IF RLt(maxVal, x) THEN maxVal ELSE x

\* GLSL smoothstep(edge0, edge1, x), edge0 < edge1:
\*   t = clamp((x - edge0) / (edge1 - edge0), 0, 1);  return t * t * (3 - 2 * t);
smoothstep(edge0, edge1, x) ==
  LET t == clamp(RDiv(RSub(x, edge0), RSub(edge1, edge0)), ZERO, ONE)
  IN  RMul(RMul(t, t), RSub(THREE, RMul(TWO, t)))

\* float progress = uForOpening ? 1.0-uProgress : uProgress;
\* (faulty variant: the direction is ignored)
Progress_ignoreDirection(forOpening, p) == p
Progress(forOpening, p) == IF forOpening THEN RSub(ONE, p) ELSE p

\* The arguments handed to smoothstep for the three phases.
tbLocal(progress) == clamp(RDiv(progress, TB_TIME), ZERO, ONE)
\* (faulty variant of lrLocal: the clamp is missing)
lrLocal_unclamped(progress) == RDiv(RSub(progress, LR_DELAY), LR_TIME)
lrLocal(progress) == clamp(RDiv(RSub(progress, LR_DELAY), LR_TIME), ZERO, ONE)
ffLocal(progress) == clamp(RDiv(RAdd(RSub(progress, ONE), FF_TIME), FF_TIME), ZERO, ONE)

\* float tb = coord * 2;  tb = tb < 1 ? tb : 2 - tb;   (and the same for lr)
Gradient(coord) ==
  LET g == RMul(coord, TWO) IN IF RLt(g, ONE) THEN g ELSE RSub(TWO, g)

\* 1 - smoothstep(0, 1, clamp((eased - g) / BLUR_WIDTH, 0, 1)): tbMask and lrMask.
\* (faulty variants: g - eased for eased - g; the leading `1 -` missing)
WipeMask_swapped(eased, g) ==
  RSub(ONE, smoothstep(ZERO, ONE, clamp(RDiv(RSub(g, eased), BLUR_WIDTH), ZERO, ONE)))
WipeMask_notInverted(eased, g) ==
  smoothstep(ZERO, ONE, clamp(RDiv(RSub(eased, g), BLUR_WIDTH), ZERO, ONE))
WipeMask(eased, g) ==
  RSub(ONE, smoothstep(ZERO, ONE, clamp(RDiv(RSub(eased, g), BLUR_WIDTH), ZERO, ONE)))

\* One evaluation of the fragment code: every local, and the factor of mix().
Fragment(forOpening, p, st) ==
  LET progress   == Progress(forOpening, p)
      tbProgress == smoothstep(ZERO, ONE, tbLocal(progress))
      lrProgress == smoothstep(ZERO, ONE, lrLocal(progress))
      ffProgress == smoothstep(ZERO, ONE, ffLocal(progress))
      tb         == Gradient(st[2])
      lr         == Gradient(st[1])
      tbMask     == WipeMask(tbProgress, tb)
      lrMask     == WipeMask(lrProgress, lr)
      ffMask     == RSub(ONE, smoothstep(ZERO, ONE, ffProgress))
  IN  [ progress |-> progress,
        tbLocal |-> tbLocal(progress), lrLocal |-> lrLocal(progress),
        ffLocal |-> ffLocal(progress),
        tbProgress |-> tbProgress, lrProgress |-> lrProgress,
        ffProgress |-> ffProgress,
        tb |-> tb, lr |-> lr,
        tbMask |-> tbMask, lrMask |-> lrMask, ffMask |-> ffMask,
        mask |-> RMul(RMul(tbMask, lrMask), ffMask),
        blendArg |-> progress,
        blend |-> smoothstep(ZERO, ONE, progress) ]

\* The values of uProgress the host supplies: a grid over [0,1] with the phase
\* boundaries on it, values outside [0,1], and points p, 1 - p at which a wipe has
\* just started (its eased progress is below BLUR_WIDTH).
ProgressValues ==
  {Rat(k, 20) : k \in (0 - MaxOver)..(20 + MaxOver)}
    \cup {Rat(19, 50), Rat(31, 50), Rat(7, 180), Rat(173, 180)}

\* Texture coordinates: the edges, the centre, and a point inside a blur band.
TexCoords == {ZERO, Rat(99, 400), Rat(1, 2), Rat(3, 4), ONE}

NoFrag == Fragment(FALSE, ZERO, <<ZERO, ZERO>>)

InitShader ==
  /\ uForOpening \in BOOLEAN
  /\ cogl_tex_coord_in \in TexCoords \X TexCoords
  /\ uProgress = ZERO
  /\ frag = NoFrag
  /\ rendered = 0
  /\ prevMask = ONE

IdleShader ==
  /\ uForOpening = FALSE
  /\ cogl_tex_coord_in = <<ZERO, ZERO>>
  /\ uProgress = ZERO
  /\ frag = NoFrag
  /\ rendered = 0
  /\ prevMask = ONE

\* The host advances the transition to progress p and the fragment is shaded.
PaintFrame(p) ==
  /\ rendered = 0 \/ RLt(uProgress, p)
  /\ uProgress' = p
  /\ frag' = Fragment(uForOpening, p, cogl_tex_coord_in)
  /\ prevMask' = IF rendered = 0 THEN ONE ELSE frag.mask
  /\ rendered' = IF rendered = 0 THEN 1 ELSE 2
  /\ UNCHANGED <<uForOpening, cogl_tex_coord_in>>
  /\ UNCHANGED <<poolVars, doom, doomRun>>

----------------------------------------------------------------------------
(* TVEffect.js: the shader pool, and the transitions extension.js runs.    *)

Actors == 1..MaxActors
Shaders == 1..MaxShaders
Colors == {"rgb(0,0,0)", "rgb(200,200,200)"}

\* extension.js (the caller): an actor has at most one running transition, which
\* holds the shader getShader() returned until it calls free() on it, once.
Running(actor) == shaderOf[actor] # 0

\* The instances handed out by getShader() and not yet given back by free().
InUse == {shaderOf[a] : a \in Actors} \ {0}

\* getShader: `new ShaderClass()` if freeShaders is empty, else the popped one.
\* (faulty variant: a new instance on every call)
takeShader_alwaysNew(fs, n) == n + 1
takeShader(fs, n) == IF Len(fs) = 0 THEN n + 1 ELSE fs[Len(fs)]

\* freeShaders after getShader: Array.pop() removes the last element.
\* (faulty variant: the last element is read but not removed)
pop_keep(fs) == fs
pop(fs) == IF Len(fs) = 0 THEN fs ELSE SubSeq(fs, 1, Len(fs) - 1)

\* ShaderClass.setUniforms: writes uColor from the 'tv-effect-color' setting.
setUniforms(u, shader, color) == [u EXCEPT ![shader] = color]

\* getShader: setUniforms is called on the shader, new or reused.
\* (faulty variant: only a new shader is configured)
configure_onlyNew(u, shader, fresh, color) ==
  IF fresh THEN [uColor |-> setUniforms(u, shader, color), calls |-> 1]
           ELSE [uColor |-> u, calls |-> 0]
configure(u, shader, fresh, color) ==
  [uColor |-> setUniforms(u, shader, color), calls |-> 1]

\* ShaderClass.free: freeShaders.push(this).
\* (faulty variant: unshift for push)
push_front(fs, shader) == <<shader>> \o fs
push(fs, shader) == Append(fs, shader)

\* TVEffect.cleanUp: freeShaders = [].
\* (faulty variant: the array is kept)
emptied_keep(fs) == fs
emptied(fs) == << >>

\* The last two pool calls.
Logged(log, op, shader) ==
  LET l == Append(log, [op |-> op, shader |-> shader])
  IN  IF Len(l) > 2 THEN SubSeq(l, Len(l) - 1, Len(l)) ELSE l

Max(a, b) == IF a < b THEN b ELSE a

InitPool ==
  /\ freeShaders = << >>
  /\ nShaders = 0
  /\ uColor = [x \in Shaders |-> "unset"]
  /\ shaderOf = [a \in Actors |-> 0]
  /\ settingsOf = [a \in Actors |-> "none"]
  /\ setCalls = [a \in Actors |-> 0]
  /\ painted = [a \in Actors |-> FALSE]
  /\ lastTake = "none"
  /\ framesOK = TRUE
  /\ calls = << >>
  /\ preDrain = {}
  /\ heldAtDrain = {}
  /\ drained = FALSE
  /\ maxInUse = 0

\* extension.js starts a transition of `actor`: TVEffect.getShader(actor, settings,
\* forOpening); the returned shader is attached to the actor.
getShaderStep(actor, settings, forOpening) ==
  /\ ~Running(actor)
  /\ LET shader == takeShader(freeShaders, nShaders)
         fresh  == shader > nShaders
         conf   == configure(uColor, shader, fresh, settings)
     IN  /\ shader <= MaxShaders
         /\ freeShaders' = pop(freeShaders)
         /\ nShaders' = IF fresh THEN shader ELSE nShaders
         /\ uColor' = conf.uColor
         /\ setCalls' = [setCalls EXCEPT ![actor] = conf.calls]
         /\ shaderOf' = [shaderOf EXCEPT ![actor] = shader]
  /\ settingsOf' = [settingsOf EXCEPT ![actor] = settings]
  /\ painted' = [painted EXCEPT ![actor] = FALSE]
  /\ UNCHANGED framesOK

\* A frame of the actor's transition is painted: the shader samples uColor.
paintStep(actor) ==
  /\ Running(actor)
  /\ painted' = [painted EXCEPT ![actor] = TRUE]
  /\ framesOK' = (framesOK /\ uColor[shaderOf[actor]] = settingsOf[actor])
  /\ UNCHANGED <<freeShaders, nShaders, uColor, shaderOf, settingsOf, setCalls>>

\* The actor's transition ends (or is cancelled): extension.js calls shader.free().
freeStep(actor) ==
  /\ Running(actor)
  /\ freeShaders' = push(freeShaders, shaderOf[actor])
  /\ shaderOf' = [shaderOf EXCEPT ![actor] = 0]
  /\ settingsOf' = [settingsOf EXCEPT ![actor] = "none"]
  /\ setCalls' = [setCalls EXCEPT ![actor] = 0]
  /\ painted' = [painted EXCEPT ![actor] = FALSE]
  /\ UNCHANGED <<nShaders, uColor, framesOK>>

\* The extension is disabled: TVEffect.cleanUp(). Running transitions keep their
\* shaders and free() them when they end.
cleanUpStep ==
  /\ freeShaders' = emptied(freeShaders)
  /\ UNCHANGED <<nShaders, uColor, shaderOf, settingsOf, setCalls, painted,
                 framesOK>>

\* The same four steps with the call history of the pool.
getShader(actor, settings, forOpening) ==
  /\ getShaderStep(actor, settings, forOpening)
  /\ calls' = Logged(calls, "getShader", shaderOf'[actor])
  /\ maxInUse' = Max(maxInUse, Cardinality({shaderOf'[a] : a \in Actors} \ {0}))
  /\ UNCHANGED <<preDrain, heldAtDrain, drained, lastTake>>
  /\ UNCHANGED <<shaderVars, doom, doomRun>>

paint(actor) ==
  /\ paintStep(actor)
  /\ UNCHANGED <<historyVars, lastTake>>
  /\ UNCHANGED <<shaderVars, doom, doomRun>>

free(actor) ==
  /\ freeStep(actor)
  /\ calls' = Logged(calls, "free", shaderOf[actor])
  /\ UNCHANGED <<preDrain, heldAtDrain, drained, maxInUse, lastTake>>
  /\ UNCHANGED <<shaderVars, doom, doomRun>>

cleanUp ==
  /\ cleanUpStep
  /\ preDrain' = 1..nShaders
  /\ heldAtDrain' = heldAtDrain \cup InUse
  /\ drained' = TRUE
  /\ calls' = Logged(calls, "cleanUp", 0)
  /\ UNCHANGED <<maxInUse, lastTake>>
  /\ UNCHANGED <<shaderVars, doom, doomRun>>

\* The four steps alone, for the transitions of both effects; lastTake records
\* whether the getShader() after the last free() found its shader in freeShaders.
tvGetShader(actor, settings, forOpening) ==
  /\ getShaderStep(actor, settings, forOpening)
  /\ lastTake' = IF Len(freeShaders) = 0 THEN "new" ELSE "reused"
  /\ UNCHANGED historyVars
  /\ UNCHANGED <<shaderVars, doom, doomRun>>

tvPaint(actor) ==
  /\ paintStep(actor)
  /\ UNCHANGED <<historyVars, lastTake>>
  /\ UNCHANGED <<shaderVars, doom, doomRun>>

tvFree(actor) ==
  /\ freeStep(actor)
  /\ lastTake' = "none"
  /\ UNCHANGED historyVars
  /\ UNCHANGED <<shaderVars, doom, doomRun>>

tvCleanUp ==
  /\ cleanUpStep
  /\ UNCHANGED <<historyVars, lastTake>>
  /\ UNCHANGED <<shaderVars, doom, doomRun>>

----------------------------------------------------------------------------
(* Doom.js: the begin-animation handler.                                   *)

Heights == 1..MaxHeight
DoomSettings ==
  [ testMode : BOOLEAN,
    horizontalScale : {Rat(1, 2), TWO},
    verticalScale : {ONE, THREE},
    pixelSize : {ONE, Rat(5, 1)} ]

\* let actorScale = 2.0 * Math.max(1.0, global.stage.height / actor.height);
\* (faulty variant: Math.max missing)
actorScale_noMax(stageHeight, actorHeight) ==
  RMul(TWO, RDiv(Rat(stageHeight, 1), Rat(actorHeight, 1)))
actorScale(stageHeight, actorHeight) ==
  RMul(TWO, RMax(ONE, RDiv(Rat(stageHeight, 1), Rat(actorHeight, 1))))

\* The four set_uniform_float calls of the handler.
beginAnimation(settings, stageHeight, actorHeight) ==
  [ uActorScale      |-> IF settings.testMode THEN ONE
                         ELSE actorScale(stageHeight, actorHeight),
    uHorizontalScale |-> settings.horizontalScale,
    uVerticalScale   |-> IF settings.testMode THEN Rat(500, 1)
                         ELSE settings.verticalScale,
    uPixelSize       |-> settings.pixelSize ]

DoomUniforms == {"uActorScale", "uHorizontalScale", "uVerticalScale", "uPixelSize"}

IdleDoom ==
  doom = [ began |-> FALSE,
           settings |-> [testMode |-> FALSE, horizontalScale |-> TWO,
                         verticalScale |-> ONE, pixelSize |-> ONE],
           stageHeight |-> 1, actorHeight |-> 1,
           uniforms |-> [u \in DoomUniforms |-> ZERO] ]

\* shader emits 'begin-animation' (shader, settings, forOpening, actor).
BeginAnimation(settings, stageHeight, actorHeight) ==
  /\ doom' = [ began |-> TRUE, settings |-> settings,
               stageHeight |-> stageHeight, actorHeight |-> actorHeight,
               uniforms |-> beginAnimation(settings, stageHeight, actorHeight) ]
  /\ UNCHANGED <<poolVars, shaderVars, doomRun>>

----------------------------------------------------------------------------
(* Doom.js: a transition with the Doom effect. The ShaderFactory and the   *)
(* shader's beginAnimation() are not in src/; they follow the constructor's *)
(* comment (the callback runs for each newly created shader) and the spec. *)

UNSET == << >>

\* The settings and geometry of a transition: two that differ in every uniform.
DoomRuns ==
  { [ settings |-> [testMode |-> FALSE, horizontalScale |-> Rat(1, 2),
                    verticalScale |-> ONE, pixelSize |-> ONE],
      stageHeight |-> 2, actorHeight |-> 1 ],
    [ settings |-> [testMode |-> FALSE, horizontalScale |-> TWO,
                    verticalScale |-> THREE, pixelSize |-> Rat(5, 1)],
      stageHeight |-> 1, actorHeight |-> 1 ] }

\* The constructor's callback: one 'begin-animation' handler is connected to a
\* newly created shader.
connectHandler(handlers) == handlers + 1

\* One run of the handler: all four uniforms are written.
\* (faulty variant: uPixelSize is not written)
handlerWrites_skipPixelSize(old, run) ==
  [ u \in DoomUniforms |->
      IF u = "uPixelSize" THEN old[u]
      ELSE beginAnimation(run.settings, run.stageHeight, run.actorHeight)[u] ]
handlerWrites(old, run) ==
  [ u \in DoomUniforms |->
      beginAnimation(run.settings, run.stageHeight, run.actorHeight)[u] ]

\* The emission of 'begin-animation' runs every connected handler.
emitted(old, handlers, run) == IF handlers = 0 THEN old ELSE handlerWrites(old, run)

IdleDoomRun ==
  doomRun = [ created |-> FALSE, pooled |-> FALSE, handlers |-> 0,
              uniforms |-> [u \in DoomUniforms |-> UNSET],
              phase |-> "idle", run |-> UNSET, begins |-> 0,
              painted |-> FALSE, reused |-> FALSE, framesOK |-> TRUE ]

\* ShaderFactory.getShader(): the pooled shader, or a new one, for which the
\* constructor's callback runs.
doomGetShader ==
  /\ doomRun.phase = "idle"
  /\ doomRun' = [ doomRun EXCEPT
                    !.created = TRUE,
                    !.pooled = FALSE,
                    !.handlers = IF doomRun.pooled THEN @ ELSE connectHandler(@),
                    !.reused = doomRun.pooled,
                    !.phase = "acquired",
                    !.begins = 0,
                    !.painted = FALSE ]
  /\ UNCHANGED <<poolVars, shaderVars, doom>>

\* shader.beginAnimation(settings, forOpening, actor): emits 'begin-animation';
\* then the shader is attached to the actor.
doomBeginAnimation(run) ==
  /\ doomRun.phase = "acquired"
  /\ doomRun' = [ doomRun EXCEPT
                    !.uniforms = emitted(@, doomRun.handlers, run),
                    !.begins = doomRun.handlers,
                    !.run = run,
                    !.phase = "begun" ]
  /\ UNCHANGED <<poolVars, shaderVars, doom>>

\* A frame of the transition is painted: the shader samples its four uniforms.
doomPaint ==
  /\ doomRun.phase = "begun"
  /\ doomRun' = [ doomRun EXCEPT
                    !.painted = TRUE,
                    !.framesOK =
                       (@ /\ doomRun.uniforms =
                               beginAnimation(doomRun.run.settings,
                                              doomRun.run.stageHeight,
                                              doomRun.run.actorHeight)) ]
  /\ UNCHANGED <<poolVars, shaderVars, doom>>

\* The transition ends: the shader goes back to the factory.
doomReturn ==
  /\ doomRun.phase # "idle"
  /\ doomRun' = [ doomRun EXCEPT
                    !.pooled = TRUE, !.phase = "idle", !.run = UNSET,
                    !.begins = 0, !.painted = FALSE, !.reused = FALSE ]
  /\ UNCHANGED <<poolVars, shaderVars, doom>>

----------------------------------------------------------------------------
(* Specifications: the pool with its transitions, one fragment over the    *)
(* frames of a transition, and the Doom handler.                           *)

InitPoolSpec == InitPool /\ IdleShader /\ IdleDoom /\ IdleDoomRun

NextPool ==
  \/ \E actor \in Actors, settings \in Colors, forOpening \in BOOLEAN :
        getShader(actor, settings, forOpening)
  \/ \E actor \in Actors : paint(actor)
  \/ \E actor \in Actors : free(actor)
  \/ cleanUp

SpecPool == InitPoolSpec /\ [][NextPool]_vars

InitShaderSpec == InitPool /\ InitShader /\ IdleDoom /\ IdleDoomRun

NextShader == \E p \in ProgressValues : PaintFrame(p)

SpecShader == InitShaderSpec /\ [][NextShader]_vars

NextDoom ==
  \E settings \in DoomSettings, stageHeight \in Heights, actorHeight \in Heights :
     BeginAnimation(settings, stageHeight, actorHeight)

SpecDoom == InitPoolSpec /\ [][NextDoom]_vars

\* The transitions of both effects.
NextTransitions ==
  \/ \E actor \in Actors, settings \in Colors, forOpening \in BOOLEAN :
        tvGetShader(actor, settings, forOpening)
  \/ \E actor \in Actors : tvPaint(actor)
  \/ \E actor \in Actors : tvFree(actor)
  \/ tvCleanUp
  \/ doomGetShader
  \/ \E run \in DoomRuns : doomBeginAnimation(run)
  \/ doomPaint
  \/ doomReturn

SpecTransitions == InitPoolSpec /\ [][NextTransitions]_vars

----------------------------------------------------------------------------
(* Claims about the pool (SpecPool).                                       *)

LastCall == calls[Len(calls)]
LastIs(op) == Len(calls) >= 1 /\ LastCall.op = op

\* C1: no shader instance is both in freeShaders and in use by a transition; no
\* instance is in freeShaders twice, and no instance is in use by two transitions.
C1_FreeAndInUseDisjoint ==
  /\ \A i \in DOMAIN freeShaders : freeShaders[i] \notin InUse
  /\ \A i, j \in DOMAIN freeShaders : i # j => freeShaders[i] # freeShaders[j]
  /\ \A a, b \in Actors : (a # b /\ shaderOf[a] # 0) => shaderOf[a] # shaderOf[b]

C1_Witness ==
  /\ drained
  /\ Len(freeShaders) >= 1
  /\ InUse # {}
  /\ LastIs("free")

\* C2: a getShader() that directly follows x.free() returns x (so getShader();
\* x.free(); getShader() returns x again), and a getShader() that directly follows
\* another getShader() returns a different instance.
C2_RoundTrip ==
  (Len(calls) = 2 /\ calls[2].op = "getShader") =>
     /\ calls[1].op = "free" => calls[2].shader = calls[1].shader
     /\ calls[1].op = "getShader" => calls[2].shader # calls[1].shader

C2_Witness ==
  /\ Len(calls) = 2
  /\ calls[1].op = "free"
  /\ calls[2].op = "getShader"
  /\ calls[2].shader = calls[1].shader
  /\ Len(freeShaders) >= 1

\* C3 as claimed: cleanUp() empties freeShaders, and no getShader() after a
\* cleanUp() returns an instance constructed before it, also when a pre-drain
\* instance is freed after the cleanUp().
C3_NoPreDrainInstanceEver ==
  /\ LastIs("cleanUp") => freeShaders = << >>
  /\ (drained /\ LastIs("getShader")) => LastCall.shader \notin preDrain

\* C3 amended: cleanUp() empties freeShaders, and a getShader() after a cleanUp()
\* returns an instance constructed before it only if that instance was still in
\* use when a cleanUp() ran (and was freed afterwards).
C3_PreDrainOnlyIfHeldAtDrain ==
  /\ LastIs("cleanUp") => freeShaders = << >>
  /\ (drained /\ LastIs("getShader") /\ LastCall.shader \in preDrain)
        => LastCall.shader \in heldAtDrain
  /\ \A i \in DOMAIN freeShaders :
        freeShaders[i] \in preDrain => freeShaders[i] \in heldAtDrain

C3_Witness ==
  /\ drained
  /\ LastIs("getShader")
  /\ preDrain # {}
  /\ heldAtDrain = {}
  /\ LastCall.shader \notin preDrain

\* C4: every running transition of the TV effect has had setUniforms() called
\* exactly once, its shader's uColor is the colour of that transition's settings
\* (new shader or reused), and every frame painted so far sampled that value.
\* Every transition of the Doom effect that has begun has had the begin-animation
\* handler run exactly once, each of its four uniforms holds the value of that
\* transition's settings and geometry (none unset, none left over), no frame is
\* painted before the handler has run, and every frame sampled those values.
C4_ConfiguredBeforeFrames ==
  /\ framesOK
  /\ \A a \in Actors :
        shaderOf[a] # 0 =>
          /\ setCalls[a] = 1
          /\ uColor[shaderOf[a]] = settingsOf[a]
  /\ doomRun.framesOK
  /\ doomRun.painted => doomRun.phase = "begun"
  /\ doomRun.phase = "begun" =>
        /\ doomRun.begins = 1
        /\ \A u \in DoomUniforms : doomRun.uniforms[u] # UNSET
        /\ doomRun.uniforms.uHorizontalScale = doomRun.run.settings.horizontalScale
        /\ doomRun.uniforms.uVerticalScale = doomRun.run.settings.verticalScale
        /\ doomRun.uniforms.uPixelSize = doomRun.run.settings.pixelSize
        /\ doomRun.uniforms.uActorScale =
              Rat(2 * Max(doomRun.run.stageHeight, doomRun.run.actorHeight),
                  doomRun.run.actorHeight)

\* The only running TV transition has painted, and its getShader(), which no
\* free() has followed, found its shader in freeShaders; the Doom transition has
\* painted with a shader of an earlier transition.
C4_Witness ==
  /\ lastTake = "reused"
  /\ \E a \in Actors : painted[a] /\ \A b \in Actors : Running(b) => b = a
  /\ doomRun.painted
  /\ doomRun.reused

\* C10: getShader() hands out an instance, and without cleanUp() the number of
\* instances ever constructed never exceeds the largest number in use at once.
C10_LazyGrowth ==
  /\ LastIs("getShader") => LastCall.shader \in InUse
  /\ ~drained => nShaders <= maxInUse

C10_Witness ==
  /\ ~drained
  /\ nShaders = MaxActors
  /\ maxInUse = MaxActors
  /\ Len(calls) = 2
  /\ calls[1].op = "free"
  /\ calls[2].op = "getShader"
  /\ freeShaders # << >>

----------------------------------------------------------------------------
(* Claims about the fragment shader (SpecShader).                          *)

\* C5 as claimed, for a wipe mask m computed from eased progress and gradient g.
WipeAsClaimed(eased, g, m) ==
  /\ (g = ZERO /\ RLt(ZERO, eased)) => m = ONE
  /\ (g = ONE /\ eased = ONE) => m = ZERO

\* C5 amended.
WipeAmended(eased, g, m) ==
  /\ (g = ZERO /\ RLeq(BLUR_WIDTH, eased)) => m = ZERO
  /\ (g = ZERO /\ RLt(ZERO, eased)) => RLt(m, ONE)
  /\ (g = ONE /\ eased = ONE) => m = ONE

\* C5 as claimed: mask(g=0, eased) is 1 for all eased > 0, and mask(g=1, eased=1)
\* is 0.
C5_EdgeMaskIsOne ==
  rendered # 0 =>
     /\ WipeAsClaimed(frag.tbProgress, frag.tb, frag.tbMask)
     /\ WipeAsClaimed(frag.lrProgress, frag.lr, frag.lrMask)

\* C5 amended: mask(g=0, eased) is 0 for all eased >= BLUR_WIDTH and below 1 for
\* all eased > 0, and mask(g=1, eased=1) is 1.
C5_EdgeMaskIsZero ==
  rendered # 0 =>
     /\ WipeAmended(frag.tbProgress, frag.tb, frag.tbMask)
     /\ WipeAmended(frag.lrProgress, frag.lr, frag.lrMask)

C5_Witness ==
  /\ rendered # 0
  /\ frag.tb = ONE /\ frag.tbProgress = ONE /\ frag.tbMask = ONE
  /\ frag.lr = ZERO /\ RLeq(BLUR_WIDTH, frag.lrProgress) /\ RLt(frag.lrProgress, ONE)
  /\ frag.lrMask = ZERO

\* C6: at every texture coordinate the closing mask is 1 at p = 0 and 0 at p = 1,
\* and the opening mask at p is the closing mask at 1 - p, for p in [0,1].
C6_EndsAndReversal ==
  rendered # 0 =>
     /\ (~uForOpening /\ uProgress = ZERO) => frag.mask = ONE
     /\ (~uForOpening /\ uProgress = ONE) => frag.mask = ZERO
     /\ (uForOpening /\ InUnit(uProgress)) =>
           frag.mask = Fragment(FALSE, RSub(ONE, uProgress), cogl_tex_coord_in).mask

C6_Witness ==
  /\ rendered # 0
  /\ uForOpening
  /\ InUnit(uProgress)
  /\ RLt(ZERO, frag.mask) /\ RLt(frag.mask, ONE)

\* C7: closing, on the vertical edge (top/bottom gradient 0): the mask of a frame
\* is at most the mask of the frame before it (uProgress increases from frame to
\* frame), and it is 0 at p = 1.
C7_EdgeMaskNonIncreasing ==
  (rendered # 0 /\ ~uForOpening /\ frag.tb = ZERO) =>
     /\ rendered = 2 => RLeq(frag.mask, prevMask)
     /\ uProgress = ONE => frag.mask = ZERO

C7_Witness ==
  /\ rendered = 2
  /\ ~uForOpening
  /\ frag.tb = ZERO
  /\ InUnit(uProgress)
  /\ RLt(ZERO, frag.mask)
  /\ RLt(frag.mask, prevMask)

\* The results of the fragment code lie in [0,1].
ResultsInUnit ==
  /\ InUnit(frag.tbProgress) /\ InUnit(frag.lrProgress) /\ InUnit(frag.ffProgress)
  /\ InUnit(frag.tbMask) /\ InUnit(frag.lrMask) /\ InUnit(frag.ffMask)
  /\ InUnit(frag.mask)
  /\ InUnit(frag.blend)

\* C9 as claimed: every progress-like value handed to a smoothstep is in [0,1]
\* (the direction-adjusted progress and the three local progresses), and so are
\* the results.
C9_AllClampedBeforeSmoothstep ==
  rendered # 0 =>
     /\ InUnit(frag.blendArg)
     /\ InUnit(frag.tbLocal) /\ InUnit(frag.lrLocal) /\ InUnit(frag.ffLocal)
     /\ ResultsInUnit

\* C9 amended: the three local progresses are in [0,1] when smoothstep consumes
\* them, and every sub-progress, mask and the blend factor is in [0,1]; the
\* direction-adjusted progress reaches smoothstep unclamped.
C9_LocalsClampedResultsInUnit ==
  rendered # 0 =>
     /\ InUnit(frag.tbLocal) /\ InUnit(frag.lrLocal) /\ InUnit(frag.ffLocal)
     /\ ResultsInUnit

C9_Witness ==
  /\ rendered # 0
  /\ RLt(ONE, uProgress)
  /\ frag.blendArg = uProgress
  /\ frag.blend = ONE
  /\ frag.mask = ZERO

----------------------------------------------------------------------------
(* Claims about the Doom handler (SpecDoom).                               *)

\* A uniform whose value, test-mode off, varies with the stage or actor height.
DependsOnGeometry(name) ==
  \E st \in DoomSettings, S \in Heights, H \in Heights :
     /\ ~st.testMode
     /\ beginAnimation(st, S, H)[name] # beginAnimation(st, 1, 1)[name]

\* C8: the actor-scale uniform is 2 * max(1, S/H) with test-mode off and 1 with
\* test-mode on; in test mode every uniform that depends on the geometry has the
\* value it has for any other heights and settings, and uVerticalScale is 500.
C8_ActorScale ==
  doom.began =>
    LET u == doom.uniforms
        S == doom.stageHeight
        H == doom.actorHeight
    IN  /\ ~doom.settings.testMode =>
              IF S <= H THEN u.uActorScale = TWO
              ELSE u.uActorScale[1] * H = 2 * S * u.uActorScale[2]
        /\ doom.settings.testMode =>
              /\ u.uActorScale = ONE
              /\ u.uVerticalScale = Rat(500, 1)
              /\ \A name \in DoomUniforms :
                    DependsOnGeometry(name) =>
                       \A st \in DoomSettings, S2 \in Heights, H2 \in Heights :
                          st.testMode => beginAnimation(st, S2, H2)[name] = u[name]

C8_Witness ==
  /\ doom.began
  /\ doom.settings.testMode
  /\ doom.stageHeight > doom.actorHeight
  /\ doom.uniforms.uActorScale = ONE
  /\ DependsOnGeometry("uActorScale")

====
